---- MODULE Spec2Model ----
(***************************************************************************)
(* Model of the storefront demo: the cart store (src/js/cart.js) and the   *)
(* product manager with its filter and search (main.js, kept as            *)
(* src/unnamed/part_000).                                                   *)
(*                                                                         *)
(* The cart store is modelled together with the localStorage entry         *)
(* 'techstore_cart' it reads in its constructor and writes after every     *)
(* mutation.  Both storage calls can throw (the code wraps each in         *)
(* try/catch); the outcome of a call is an input of the action.            *)
(*                                                                         *)
(* The form validator (src/js/validation.js) is modelled twice: one field  *)
(* under one rule set (SpecField), and a form of several declared fields   *)
(* (SpecForm).                                                             *)
(*                                                                         *)
(* SpecPage is the page of main.js: the product manager driven by its      *)
(* event handlers (filter click, search submit, search input with its      *)
(* debounce timer) and by the timer of the simulated catalog fetch.        *)
(***************************************************************************)
EXTENDS Integers, Sequences, FiniteSets, TLC

\* ---------------------------------------------------------------- bounds
\* product ids are 1..MaxId
MaxId == 2
\* the cart holds at most MaxCount items, all quantities added up:
\* addProduct and updateQuantity are not called beyond that
MaxCount == 3
\* quantities offered to updateQuantity go down to -NegQty
NegQty == 1

Ids == 1..MaxId
Quantities == (0 - NegQty)..MaxCount

VARIABLES
    items,      \* ProductCart.items when it is an array: the entry list
    itemsKind,  \* what this.items is: "array", or "null" / "object" after
                \* JSON.parse returned something that is not an array
    storage,    \* localStorage value under 'techstore_cart'
    logged,     \* console.error was called during the last operation
    ret,        \* outcome of the last operation: "true", "false",
                \* "undefined" (no return value) or "TypeError" (it threw)
    call        \* name of the last operation run on the cart

cartVars == <<items, itemsKind, storage, logged, ret, call>>

VARIABLES
    products,          \* ProductManager.products: the catalog
    filteredProducts,  \* ProductManager.filteredProducts: the filtered view
    loadTimer,         \* the setTimeout of loadProducts is still pending
    found,             \* array returned by the last product manager call
    pmCall             \* name of the last product manager operation

catalogVars == <<products, filteredProducts, loadTimer, found, pmCall>>

VARIABLES
    fieldValue,  \* field.value of the field given to validateField
    rules,       \* the rules given to validateField
    error,       \* what validateField returned
    fvCall       \* "validateField" once it has run, "none" before

fieldVars == <<fieldValue, rules, error, fvCall>>

VARIABLES
    form,         \* per field name: the value of the form's element of
                  \* that name, or NoElement when the form has none
    fieldsRules,  \* per declared field name: its rules
    isValid,      \* what the last validateForm returned
    errors,       \* the errors object of the last validateForm
    shown,        \* per field name: the error message displayed at it
    validated,    \* the fields the last validateForm called validateField on
    formCall      \* name of the last operation on the form

formVars == <<form, fieldsRules, isValid, errors, shown, validated, formCall>>

validatorVars == <<fieldVars, formVars>>

VARIABLES
    rendered,       \* data-product-id of the cards in #products-grid
    searchInput,    \* searchInput.value
    timers,         \* ids of the pending debounce timers
    searchTimeout,  \* the variable searchTimeout of initSearch: the id of
                    \* the last debounce timer set, 0 while undefined
    ran,            \* ids of the debounce callbacks that have run, in
                    \* the order they ran
    debounced,      \* the query the last debounce callback searched for
    cleared         \* ids of the timers that were pending when
                    \* clearTimeout was called on them

pageVars ==
    <<rendered, searchInput, timers, searchTimeout, ran, debounced, cleared>>

\* ---------------------------------------------- validator: rules, forms
\* A rule set.  minLength / maxLength are NoLength when the rule set has
\* none; pattern and custom are "" when it has none; customMessage is ""
\* when it has none.
NoLength == 0 - 1

NoRules ==
    [required |-> FALSE, minLength |-> NoLength, maxLength |-> NoLength,
     pattern |-> "", custom |-> "", customMessage |-> ""]

\* An error message: this.messages.required, .minLength(min),
\* .maxLength(max), this.messages[pattern], the custom message; null is
\* the return value null.
Message(kind, arg) == [kind |-> kind, arg |-> arg]

null == Message("null", 0)

\* the names declared in fieldsRules, in the order of Object.entries
FieldNames == <<"name", "email">>

FieldSet == {FieldNames[k] : k \in 1..Len(FieldNames)}

\* what form.querySelector('[name=...]') gives: an element with a value,
\* or nothing
Element(value) == [present |-> TRUE, value |-> value]

NoElement == [present |-> FALSE, value |-> <<>>]

\* validateField has not been called
IdleField ==
    /\ fieldValue = <<>>
    /\ rules = NoRules
    /\ error = null
    /\ fvCall = "none"

\* no form on the page
IdleForm ==
    /\ form = [f \in FieldSet |-> NoElement]
    /\ fieldsRules = [f \in FieldSet |-> NoRules]
    /\ isValid = TRUE
    /\ errors = [f \in FieldSet |-> null]
    /\ shown = [f \in FieldSet |-> null]
    /\ validated = {}
    /\ formCall = "none"

\* the page before any of its handlers has run
IdlePage ==
    /\ rendered = <<>>
    /\ searchInput = <<>>
    /\ timers = {}
    /\ searchTimeout = 0
    /\ ran = <<>>
    /\ debounced = <<>>
    /\ cleared = {}

\* ------------------------------------------------------------ products
\* A product argument of addProduct.  given = FALSE is a missing product
\* (null / undefined); id = 0 is a missing (falsy) id; name = "" is an
\* empty name.
ProductOf(i) == [given |-> TRUE, id |-> i, name |-> "item", price |-> 10 * i]

NoProduct == [given |-> FALSE, id |-> 0, name |-> "", price |-> 0]

ProductArgs ==
    {ProductOf(i) : i \in Ids}
    \cup {NoProduct,
          [ProductOf(1) EXCEPT !.id = 0],
          [ProductOf(1) EXCEPT !.name = ""],
          [ProductOf(1) EXCEPT !.price = 0],
          [ProductOf(1) EXCEPT !.price = 0 - 1]}

validateProduct_zeroPrice(product) ==
    product.given /\ product.id # 0 /\ product.name # "" /\ product.price >= 0

\* product && product.id && product.name && product.price > 0
validateProduct(product) ==
    product.given /\ product.id # 0 /\ product.name # "" /\ product.price > 0

\* ------------------------------------------------------- array helpers
RECURSIVE findFrom(_, _, _)
findFrom(its, id, k) ==
    IF k > Len(its) THEN 0
    ELSE IF its[k].id = id THEN k
    ELSE findFrom(its, id, k + 1)

\* this.items.find(item => item.id === id): index of the first entry with
\* that id, 0 when there is none (undefined)
find(its, id) == findFrom(its, id, 1)

\* this.items.filter(item => item.id !== productId)
filter(its, id) == SelectSeq(its, LAMBDA e : e.id # id)

RECURSIVE getItemCount(_)
\* this.items.reduce((count, item) => count + item.quantity, 0)
getItemCount(its) ==
    IF Len(its) = 0 THEN 0 ELSE Head(its).quantity + getItemCount(Tail(its))

\* ---------------------------------------------------------------- JSON
\* A stored text is [kind, elems].  kind "array" is the text of a JSON
\* array whose elements are the objects elems, each written as the tuple
\* <<id, name, price, quantity>>; the other kinds carry no elements:
\*   "absent"      no value under the key (getItem returns null)
\*   "empty"       the empty string
\*   "unparsable"  text JSON.parse rejects with a SyntaxError
\*   "null"        the text null
\*   "object"      the text of a JSON object, e.g. {}
Text(kind) == [kind |-> kind, elems |-> <<>>]

stringify_noQuantity(its) ==
    [kind |-> "array",
     elems |-> [k \in 1..Len(its) |->
                  <<its[k].id, its[k].name, its[k].price, 1>>]]

\* JSON.stringify(this.items)
stringify(its) ==
    [kind |-> "array",
     elems |-> [k \in 1..Len(its) |->
                  <<its[k].id, its[k].name, its[k].price, its[k].quantity>>]]

\* JSON.parse(text) for a text of kind "array"
parseArray(text) ==
    [k \in 1..Len(text.elems) |->
        [id |-> text.elems[k][1], name |-> text.elems[k][2],
         price |-> text.elems[k][3], quantity |-> text.elems[k][4]]]

\* ------------------------------------------------------------- storage
\* saveToStorage: setItem either stores the serialized list or throws, and
\* the catch block logs.  Gives <<storage, logged>>.
saveToStorage(its, st, writeOk) ==
    IF writeOk THEN <<stringify(its), FALSE>> ELSE <<st, TRUE>>

\* loadFromStorage on a cart whose items is the empty array.  Gives the
\* record [items, itemsKind, logged].
loadFromStorage(st, readOk) ==
    IF ~readOk
    THEN \* getItem threw: catch
         [items |-> <<>>, itemsKind |-> "array", logged |-> TRUE]
    ELSE IF st.kind \in {"absent", "empty"}
    THEN \* if (storedCart) is false
         [items |-> <<>>, itemsKind |-> "array", logged |-> FALSE]
    ELSE IF st.kind = "unparsable"
    THEN \* JSON.parse threw: catch
         [items |-> <<>>, itemsKind |-> "array", logged |-> TRUE]
    ELSE IF st.kind = "array"
    THEN [items |-> parseArray(st), itemsKind |-> "array", logged |-> FALSE]
    ELSE \* this.items = JSON.parse(storedCart), whatever it is
         [items |-> <<>>, itemsKind |-> st.kind, logged |-> FALSE]

\* ----------------------------------------------------- cart operations
\* Each operation maps the cart [items, itemsKind, storage] and its
\* arguments to [items, itemsKind, storage, logged, ret].
Result(its, kind, st, lg, r) ==
    [items |-> its, itemsKind |-> kind, storage |-> st, logged |-> lg, ret |-> r]

\* the operation threw a TypeError before changing anything
Threw(c) == Result(c.items, c.itemsKind, c.storage, FALSE, "TypeError")

\* the operation returned without changing anything
Returned(c, r) == Result(c.items, c.itemsKind, c.storage, FALSE, r)

\* the operation replaced the entry list, saved it and returned r
Saved(c, its, writeOk, r) ==
    LET s == saveToStorage(its, c.storage, writeOk)
    IN  Result(its, "array", s[1], s[2], r)

newEntry(product) ==
    [id |-> product.id, name |-> product.name, price |-> product.price,
     quantity |-> 1]

addToItems_push(its, product) == Append(its, newEntry(product))

addToItems_front(its, product) ==
    LET k == find(its, product.id)
    IN  IF k # 0
        THEN [its EXCEPT ![k].quantity = @ + 1]
        ELSE <<newEntry(product)>> \o its

\* lines 19-28 of addProduct: increment the existing entry or push a new one
addToItems(its, product) ==
    LET k == find(its, product.id)
    IN  IF k # 0
        THEN [its EXCEPT ![k].quantity = @ + 1]
        ELSE Append(its, newEntry(product))

addProduct(c, product, writeOk) ==
    IF ~validateProduct(product) THEN Returned(c, "false")
    ELSE IF c.itemsKind # "array" THEN Threw(c)
    ELSE Saved(c, addToItems(c.items, product), writeOk, "true")

removeProduct_always(c, productId, writeOk) ==
    IF c.itemsKind # "array" THEN Threw(c)
    ELSE Saved(c, filter(c.items, productId), writeOk, "true")

removeProduct(c, productId, writeOk) ==
    IF c.itemsKind # "array" THEN Threw(c)
    ELSE LET kept == filter(c.items, productId)
         IN  IF Len(kept) # Len(c.items)
             THEN Saved(c, kept, writeOk, "true")
             ELSE Returned(c, "false")

updateQuantity_noDelegate(c, productId, quantity, writeOk) ==
    IF quantity <= 0 THEN Returned(c, "false")
    ELSE IF c.itemsKind # "array" THEN Threw(c)
    ELSE LET k == find(c.items, productId)
         IN  IF k # 0
             THEN Saved(c, [c.items EXCEPT ![k].quantity = quantity],
                        writeOk, "true")
             ELSE Returned(c, "false")

updateQuantity_negative(c, productId, quantity, writeOk) ==
    IF quantity < 0 THEN removeProduct(c, productId, writeOk)
    ELSE IF c.itemsKind # "array" THEN Threw(c)
    ELSE LET k == find(c.items, productId)
         IN  IF k # 0
             THEN Saved(c, [c.items EXCEPT ![k].quantity = quantity],
                        writeOk, "true")
             ELSE Returned(c, "false")

updateQuantity(c, productId, quantity, writeOk) ==
    IF quantity <= 0 THEN removeProduct(c, productId, writeOk)
    ELSE IF c.itemsKind # "array" THEN Threw(c)
    ELSE LET k == find(c.items, productId)
         IN  IF k # 0
             THEN Saved(c, [c.items EXCEPT ![k].quantity = quantity],
                        writeOk, "true")
             ELSE Returned(c, "false")

clear(c, writeOk) == Saved(c, <<>>, writeOk, "undefined")

\* new ProductCart(): items = [] and then loadFromStorage
constructor(st, readOk) ==
    LET l == loadFromStorage(st, readOk)
    IN  Result(l.items, l.itemsKind, st, l.logged, "undefined")

\* ------------------------------------------------------ the cart store
Cart == [items |-> items, itemsKind |-> itemsKind, storage |-> storage]

\* entry lists the code itself can have written: no id twice, quantities
\* from 1 up, at most MaxCount items in all
distinctIds(its) ==
    \A j, k \in 1..Len(its) : its[j].id = its[k].id => j = k

Entries == {[newEntry(ProductOf(i)) EXCEPT !.quantity = q] :
              i \in Ids, q \in 1..MaxCount}

WrittenLists ==
    {its \in UNION {[1..n -> Entries] : n \in 0..MaxId} :
        distinctIds(its) /\ getItemCount(its) <= MaxCount}

\* what the key can hold when the page loads: nothing, a list an earlier
\* session wrote, or text that did not come from saveToStorage
StoredTexts ==
    {Text(k) : k \in {"absent", "empty", "unparsable", "null", "object"}}
    \cup {stringify(its) : its \in WrittenLists}

\* const cart = new ProductCart() at script load; the product manager is
\* left as constructed
Init ==
    \E st \in StoredTexts, readOk \in BOOLEAN :
        LET r == constructor(st, readOk)
        IN  /\ items = r.items
            /\ itemsKind = r.itemsKind
            /\ storage = r.storage
            /\ logged = r.logged
            /\ ret = r.ret
            /\ call = "constructor"
            \* const productManager = new ProductManager(); initApp has
            \* not run
            /\ products = <<>>
            /\ filteredProducts = <<>>
            /\ loadTimer = FALSE
            /\ found = <<>>
            /\ pmCall = "constructor"
            /\ IdleField
            /\ IdleForm
            /\ IdlePage

\* the page is loaded again: the script builds a new cart from the storage
NewProductCart ==
    \E readOk \in BOOLEAN :
        LET r == constructor(storage, readOk)
        IN  /\ items' = r.items
            /\ itemsKind' = r.itemsKind
            /\ logged' = r.logged
            /\ ret' = r.ret
            /\ call' = "constructor"
            /\ UNCHANGED storage
            /\ UNCHANGED <<catalogVars, validatorVars, pageVars>>

AddProduct ==
    \E product \in ProductArgs, writeOk \in BOOLEAN :
        LET r == addProduct(Cart, product, writeOk)
        IN  /\ getItemCount(r.items) <= MaxCount
            /\ items' = r.items
            /\ itemsKind' = r.itemsKind
            /\ storage' = r.storage
            /\ logged' = r.logged
            /\ ret' = r.ret
            /\ call' = "addProduct"
            /\ UNCHANGED <<catalogVars, validatorVars, pageVars>>

RemoveProduct ==
    \E productId \in Ids, writeOk \in BOOLEAN :
        LET r == removeProduct(Cart, productId, writeOk)
        IN  /\ items' = r.items
            /\ itemsKind' = r.itemsKind
            /\ storage' = r.storage
            /\ logged' = r.logged
            /\ ret' = r.ret
            /\ call' = "removeProduct"
            /\ UNCHANGED <<catalogVars, validatorVars, pageVars>>

UpdateQuantity ==
    \E productId \in Ids, quantity \in Quantities, writeOk \in BOOLEAN :
        LET r == updateQuantity(Cart, productId, quantity, writeOk)
        IN  /\ getItemCount(r.items) <= MaxCount
            /\ items' = r.items
            /\ itemsKind' = r.itemsKind
            /\ storage' = r.storage
            /\ logged' = r.logged
            /\ ret' = r.ret
            /\ call' = "updateQuantity"
            /\ UNCHANGED <<catalogVars, validatorVars, pageVars>>

Clear ==
    \E writeOk \in BOOLEAN :
        LET r == clear(Cart, writeOk)
        IN  /\ items' = r.items
            /\ itemsKind' = r.itemsKind
            /\ storage' = r.storage
            /\ logged' = r.logged
            /\ ret' = r.ret
            /\ call' = "clear"
            /\ UNCHANGED <<catalogVars, validatorVars, pageVars>>

Next ==
    \/ NewProductCart
    \/ AddProduct
    \/ RemoveProduct
    \/ UpdateQuantity
    \/ Clear

vars == <<cartVars, catalogVars, validatorVars, pageVars>>

\* the cart store
Spec == Init /\ [][Next]_vars

\* ================================================== cart store claims
MutatingCalls == {"addProduct", "removeProduct", "updateQuantity", "clear"}

\* the cart a result r leaves behind
CartOf(r) == [items |-> r.items, itemsKind |-> r.itemsKind, storage |-> r.storage]

\* C1: a cart that started from the storage (empty, or a list a cart wrote)
\* never holds two entries with the same product id, whatever sequence of
\* addProduct, removeProduct, updateQuantity and clear calls it has run.
C1_NoDuplicateIds ==
    itemsKind = "array" =>
        Cardinality({items[k].id : k \in 1..Len(items)}) = Len(items)

\* C1 witness: a second addProduct of a product already in a two-entry cart
C1_Witness ==
    /\ call = "addProduct" /\ ret = "true"
    /\ Len(items) = 2
    /\ \E k \in 1..2 : items[k].quantity = 2

\* C2: every entry of the cart and of the persisted record has quantity
\* >= 1, and updateQuantity with a quantity <= 0 leaves no entry for that
\* id behind instead of storing the quantity.
C2_QuantitiesPositive ==
    /\ itemsKind = "array" => \A k \in 1..Len(items) : items[k].quantity >= 1
    /\ storage.kind = "array" =>
           \A k \in 1..Len(storage.elems) : storage.elems[k][4] >= 1
    /\ itemsKind = "array" =>
           \A id \in Ids, q \in Quantities, w \in BOOLEAN :
               q <= 0 =>
                   LET r == updateQuantity(Cart, id, q, w)
                   IN  \A k \in 1..Len(r.items) : r.items[k].id # id

\* C2 witness: updateQuantity emptied the cart and the record (the only
\* way it returns true on an empty list is a removal through quantity <= 0)
C2_Witness ==
    /\ call = "updateQuantity" /\ ret = "true" /\ ~logged
    /\ items = <<>>
    /\ storage.kind = "array" /\ storage.elems = <<>>

\* C3 as stated: after every mutating operation that went through
\* (returned true, or clear), the stored record is the serialization of
\* the entry list and a cart constructed from it has an equal list.
C3_RecordInSync ==
    (call \in MutatingCalls /\ ret \in {"true", "undefined"}) =>
        /\ storage = stringify(items)
        /\ LET l == loadFromStorage(storage, TRUE)
           IN  l.itemsKind = "array" /\ l.items = items

\* C3 amended: the same, for the operations whose storage write did not
\* throw (no error was logged by saveToStorage).
C3_RecordInSyncWhenWritten ==
    (call \in MutatingCalls /\ ret \in {"true", "undefined"} /\ ~logged) =>
        /\ storage.kind = "array"
        /\ Len(storage.elems) = Len(items)
        /\ \A k \in 1..Len(items) :
               /\ storage.elems[k][1] = items[k].id
               /\ storage.elems[k][4] = items[k].quantity
        /\ LET l == loadFromStorage(storage, TRUE)
           IN  l.itemsKind = "array" /\ l.items = items

\* C3 witness: a two-entry cart with a quantity above 1 was just saved
C3_Witness ==
    /\ call \in MutatingCalls /\ ret = "true" /\ ~logged
    /\ Len(items) = 2
    /\ items[1].quantity # items[2].quantity
    /\ storage.kind = "array" /\ Len(storage.elems) = 2

\* C4 as stated: a constructor whose read failed, or that found no value
\* or anything but a serialized entry list, leaves an empty entry list, and
\* no later cart operation throws.
C4_LoadFailsOpen ==
    /\ (call = "constructor" /\ (logged \/ storage.kind # "array")) =>
           (itemsKind = "array" /\ items = <<>>)
    /\ ret # "TypeError"

\* C5: for every cart, id and quantity q <= 0, updateQuantity(id, q) and
\* removeProduct(id) give the same entry list, the same stored record and
\* the same result (under the same outcome of the storage write).
C5_NonPositiveIsRemove ==
    \A id \in Ids, q \in Quantities, w \in BOOLEAN :
        q <= 0 =>
            LET u == updateQuantity(Cart, id, q, w)
                r == removeProduct(Cart, id, w)
            IN  /\ u.items = r.items
                /\ u.itemsKind = r.itemsKind
                /\ u.storage = r.storage
                /\ u.ret = r.ret

\* C5 witness: updateQuantity removed the last entry (it returned true and
\* left an empty list) while the write of the new list failed
C5_Witness ==
    /\ call = "updateQuantity" /\ ret = "true" /\ logged
    /\ items = <<>>

\* C6: on an entry list that has no entry for id, removeProduct(id) and
\* updateQuantity(id, q) for every q return false and leave the list and
\* the stored record as they were.
C6_AbsentIdNoOp ==
    itemsKind = "array" =>
        \A id \in Ids :
            (\A k \in 1..Len(items) : items[k].id # id) =>
                \A q \in Quantities, w \in BOOLEAN :
                    LET r == removeProduct(Cart, id, w)
                        u == updateQuantity(Cart, id, q, w)
                    IN  /\ r.ret = "false" /\ CartOf(r) = Cart
                        /\ u.ret = "false" /\ CartOf(u) = Cart

\* C6 witness: removeProduct reported failure on a cart that has an entry
C6_Witness ==
    /\ call = "removeProduct" /\ ret = "false"
    /\ Len(items) = 1

\* what C7 asks of a product: it is there, has an id, a non-empty name and
\* a price above 0
C7_Acceptable(product) ==
    /\ product.given
    /\ product.id \in Ids
    /\ Len(product.name) > 0
    /\ ~(product.price <= 0)

\* C7: addProduct returns true exactly for the products with an id, a
\* non-empty name and price > 0; for every other argument it returns false
\* and leaves the entry list and the stored record unchanged.
C7_AddValidates ==
    \A product \in ProductArgs, w \in BOOLEAN :
        LET r == addProduct(Cart, product, w)
        IN  /\ itemsKind = "array" =>
                   (r.ret = "true" <=> C7_Acceptable(product))
            /\ ~C7_Acceptable(product) =>
                   (r.ret = "false" /\ CartOf(r) = Cart)

\* C7 witness: addProduct refused a product on a non-empty cart
C7_Witness ==
    /\ call = "addProduct" /\ ret = "false"
    /\ itemsKind = "array" /\ Len(items) = 2

\* C8: for every entry list and valid product, addProduct returns true and
\* either appends one entry with quantity 1 at the end (id absent) or adds
\* 1 to the quantity of the entry with that id, in place (id present); the
\* other entries and the order stay.  Two adds to an empty cart give one
\* entry with quantity 2.
C8_AddEffect ==
    itemsKind = "array" =>
        \A i \in Ids, w \in BOOLEAN :
            LET r == addProduct(Cart, ProductOf(i), w)
                n == Len(items)
                at == {k \in 1..n : items[k].id = i}
                first == addProduct([Cart EXCEPT !.items = <<>>], ProductOf(i), w)
                second == addProduct(CartOf(first), ProductOf(i), w)
            IN  /\ r.ret = "true" /\ r.itemsKind = "array"
                /\ at = {} =>
                       /\ Len(r.items) = n + 1
                       /\ \A k \in 1..n : r.items[k] = items[k]
                       /\ r.items[n + 1].id = i
                       /\ r.items[n + 1].quantity = 1
                /\ at # {} =>
                       /\ Len(r.items) = n
                       /\ \A k \in 1..n :
                              IF k \in at
                              THEN r.items[k] =
                                     [items[k] EXCEPT !.quantity = items[k].quantity + 1]
                              ELSE r.items[k] = items[k]
                /\ Len(second.items) = 1
                /\ second.items[1].id = i
                /\ second.items[1].quantity = 2

\* C8 witness: addProduct incremented the first of two entries in place
C8_Witness ==
    /\ call = "addProduct" /\ ret = "true"
    /\ Len(items) = 2
    /\ items[1].quantity = 2 /\ items[2].quantity = 1

\* ===================================================== product manager
\* Strings are sequences of characters over a small alphabet that has
\* letters in both cases and the space.
\* catalogs have up to MaxCatalog products
MaxCatalog == 3
\* queries have up to MaxQueryLen characters
MaxQueryLen == 2

lowerChar(ch) ==
    CASE ch = "A" -> "a"
      [] ch = "B" -> "b"
      [] OTHER -> ch

\* String.prototype.toLowerCase
toLowerCase(str) == [k \in 1..Len(str) |-> lowerChar(str[k])]

RECURSIVE trimStart(_)
trimStart(str) ==
    IF Len(str) > 0 /\ Head(str) = " " THEN trimStart(Tail(str)) ELSE str

RECURSIVE trimEnd(_)
trimEnd(str) ==
    IF Len(str) > 0 /\ str[Len(str)] = " "
    THEN trimEnd(SubSeq(str, 1, Len(str) - 1))
    ELSE str

\* String.prototype.trim
trim(str) == trimEnd(trimStart(str))

\* String.prototype.includes
includes(str, part) ==
    \E i \in 0..(Len(str) - Len(part)) : SubSeq(str, i + 1, i + Len(part)) = part

\* The catalog literal of loadProducts, cut down to four products over the
\* small alphabet; a catalog is any list of them without repetition.
ProductPool ==
    {[id |-> 1, name |-> <<"A", "b">>, description |-> <<"b", " ", "A">>,
      category |-> "smartphones"],
     [id |-> 2, name |-> <<"b", "a">>, description |-> <<"B">>,
      category |-> "laptops"],
     [id |-> 3, name |-> <<"B", " ", "b">>, description |-> <<"a", "b">>,
      category |-> "smartphones"],
     [id |-> 4, name |-> <<"a">>, description |-> <<"A", "a">>,
      category |-> "tablets"]}

Catalogs ==
    {c \in UNION {[1..n -> ProductPool] : n \in 0..MaxCatalog} :
        \A j, k \in 1..Len(c) : c[j].id = c[k].id => j = k}

\* data-category of the filter buttons
CategoryArgs == {"all", "smartphones", "laptops", "tablets", "accessories"}

QueryChars == {"a", "B", " "}

Queries == UNION {[1..n -> QueryChars] : n \in 0..MaxQueryLen}

\* Each operation maps the manager [products, filteredProducts] and its
\* argument to [products, filteredProducts, found].
Manager == [products |-> products, filteredProducts |-> filteredProducts]

View(pm, list) ==
    [products |-> pm.products, filteredProducts |-> list, found |-> list]

filterByCategory_noSentinel(pm, category) ==
    View(pm, SelectSeq(pm.products, LAMBDA p : p.category = category))

filterByCategory(pm, category) ==
    IF category = "all"
    THEN View(pm, pm.products)
    ELSE View(pm, SelectSeq(pm.products, LAMBDA p : p.category = category))

searchProducts(pm, query) ==
    IF trim(query) = <<>>
    THEN View(pm, pm.products)
    ELSE LET lowerCaseQuery == toLowerCase(query)
         IN  View(pm, SelectSeq(pm.products,
                 LAMBDA p : \/ includes(toLowerCase(p.name), lowerCaseQuery)
                            \/ includes(toLowerCase(p.description), lowerCaseQuery)))

\* initApp has called loadProducts: the manager is empty and the timer of
\* the simulated fetch is pending; the cart was constructed with nothing
\* stored
InitCatalog ==
    /\ items = constructor(Text("absent"), TRUE).items
    /\ itemsKind = constructor(Text("absent"), TRUE).itemsKind
    /\ storage = constructor(Text("absent"), TRUE).storage
    /\ logged = constructor(Text("absent"), TRUE).logged
    /\ ret = constructor(Text("absent"), TRUE).ret
    /\ call = "constructor"
    /\ products = <<>>
    /\ filteredProducts = <<>>
    /\ loadTimer = TRUE
    /\ found = <<>>
    /\ pmCall = "constructor"
    /\ IdleField
    /\ IdleForm
    /\ IdlePage

\* the setTimeout callback of loadProducts
LoadProducts ==
    \E catalog \in Catalogs :
        /\ loadTimer
        /\ loadTimer' = FALSE
        /\ products' = catalog
        /\ filteredProducts' = catalog
        /\ found' = catalog
        /\ pmCall' = "loadProducts"
        /\ UNCHANGED <<cartVars, validatorVars, pageVars>>

FilterByCategory ==
    \E category \in CategoryArgs :
        LET r == filterByCategory(Manager, category)
        IN  /\ products' = r.products
            /\ filteredProducts' = r.filteredProducts
            /\ found' = r.found
            /\ pmCall' = "filterByCategory"
            /\ UNCHANGED <<loadTimer, cartVars, validatorVars, pageVars>>

SearchProducts ==
    \E query \in Queries :
        LET r == searchProducts(Manager, query)
        IN  /\ products' = r.products
            /\ filteredProducts' = r.filteredProducts
            /\ found' = r.found
            /\ pmCall' = "searchProducts"
            /\ UNCHANGED <<loadTimer, cartVars, validatorVars, pageVars>>

NextCatalog ==
    \/ LoadProducts
    \/ FilterByCategory
    \/ SearchProducts

\* the product manager
SpecCatalog == InitCatalog /\ [][NextCatalog]_vars

\* =============================================== product manager claims
\* the elements of list at the positions in keep, in the order of list
RECURSIVE Picked(_, _, _)
Picked(list, keep, k) ==
    IF k > Len(list) THEN <<>>
    ELSE IF k \in keep THEN <<list[k]>> \o Picked(list, keep, k + 1)
    ELSE Picked(list, keep, k + 1)

\* str contains part when the case of the letters is ignored
ContainsIgnoringCase(str, part) ==
    \E i \in 0..(Len(str) - Len(part)) :
        \A j \in 1..Len(part) : lowerChar(str[i + j]) = lowerChar(part[j])

\* C9 as stated: for every catalog and query, searchProducts returns, in
\* catalog order, exactly the products whose name or description contains
\* the trimmed query ignoring case, and the whole catalog when the query is
\* empty or only whitespace.
C9_SearchMatchesTrimmedQuery ==
    \A query \in Queries :
        LET r == searchProducts(Manager, query)
            t == trim(query)
            hits == {k \in 1..Len(products) :
                        \/ ContainsIgnoringCase(products[k].name, t)
                        \/ ContainsIgnoringCase(products[k].description, t)}
        IN  r.found = Picked(products, hits, 1)

\* C10: filterByCategory("all") returns the whole catalog in order, any
\* other category exactly the products of that category in catalog order,
\* and the catalog is left unchanged.
C10_FilterByCategory ==
    \A category \in CategoryArgs :
        LET r == filterByCategory(Manager, category)
            same == {k \in 1..Len(products) : products[k].category = category}
        IN  /\ r.products = products
            /\ r.filteredProducts = r.found
            /\ category = "all" => r.found = products
            /\ category # "all" => r.found = Picked(products, same, 1)

\* C10 witness: a filter by a category left one of two products in view
C10_Witness ==
    /\ pmCall = "filterByCategory"
    /\ Len(products) = 2
    /\ Len(found) = 1
    /\ found = filteredProducts

\* ====================================================== form validator
\* field values have up to MaxValueLen characters (plus the samples below)
MaxValueLen == 2
\* minLength and maxLength go from 0 to MaxRuleLen
MaxRuleLen == 2

LowerCase == {"a", "b", "c", "d", "e", "f", "g"}
UpperCase == {"A", "B"}
Digit == {"0", "1", "2", "3", "4", "5", "6", "7", "8", "9"}
Whitespace == {" "}

\* name: /^[a-zA-Z...\s\-']+$/ (the alphabet here has no Cyrillic letters)
testName(value) ==
    /\ Len(value) >= 1
    /\ \A k \in 1..Len(value) :
           value[k] \in LowerCase \cup UpperCase \cup Whitespace \cup {"-", "'"}

\* email: /^[^\s@]+@[^\s@]+\.[^\s@]+$/
testEmail(value) ==
    \E at \in 2..Len(value) :
        /\ value[at] = "@"
        /\ \A k \in (1..Len(value)) \ {at} : value[k] \notin Whitespace \cup {"@"}
        /\ \E dot \in (at + 2)..(Len(value) - 1) : value[dot] = "."

\* password: /^(?=.*[a-z])(?=.*[A-Z])(?=.*\d)[a-zA-Z\d]{8,}$/
testPassword(value) ==
    /\ Len(value) >= 8
    /\ \A k \in 1..Len(value) : value[k] \in LowerCase \cup UpperCase \cup Digit
    /\ \E k \in 1..Len(value) : value[k] \in LowerCase
    /\ \E k \in 1..Len(value) : value[k] \in UpperCase
    /\ \E k \in 1..Len(value) : value[k] \in Digit

\* position after an optional character of chars at position pos
optional(value, pos, chars) ==
    IF pos <= Len(value) /\ value[pos] \in chars THEN pos + 1 ELSE pos

\* n digits start at position pos
digits(value, pos, n) ==
    /\ pos + n - 1 <= Len(value)
    /\ \A k \in pos..(pos + n - 1) : value[k] \in Digit

\* phone: /^\+7\s?\(?\d{3}\)?\s?\d{3}-?\d{2}-?\d{2}$/
testPhone(value) ==
    /\ Len(value) >= 2 /\ value[1] = "+" /\ value[2] = "7"
    /\ LET a == optional(value, optional(value, 3, Whitespace), {"("})
           b == optional(value, optional(value, a + 3, {")"}), Whitespace)
           c == optional(value, b + 3, {"-"})
           d == optional(value, c + 2, {"-"})
       IN  /\ digits(value, a, 3)
           /\ digits(value, b, 3)
           /\ digits(value, c, 2)
           /\ digits(value, d, 2)
           /\ Len(value) = d + 1

\* this.patterns[pattern].test(value)
test(pattern, value) ==
    CASE pattern = "email" -> testEmail(value)
      [] pattern = "phone" -> testPhone(value)
      [] pattern = "name" -> testName(value)
      [] pattern = "password" -> testPassword(value)

\* rules.custom(value), for the predicates a rule set can carry here
custom(predicate, value) ==
    CASE predicate = "accept" -> TRUE
      [] predicate = "reject" -> FALSE
      [] predicate = "noDigit" -> \A k \in 1..Len(value) : value[k] \notin Digit

\* rules.customMessage, or the default text when there is none
customMessageOf(rls) ==
    IF rls.customMessage # "" THEN rls.customMessage ELSE "invalid value"

validateField_patternFirst(value0, rls) ==
    LET value == trim(value0)
    IN  IF rls.required /\ value = <<>> THEN Message("required", 0)
        ELSE IF value = <<>> THEN null
        ELSE IF rls.minLength > 0 /\ Len(value) < rls.minLength
        THEN Message("minLength", rls.minLength)
        ELSE IF rls.pattern # "" /\ ~test(rls.pattern, value)
        THEN Message(rls.pattern, 0)
        ELSE IF rls.maxLength > 0 /\ Len(value) > rls.maxLength
        THEN Message("maxLength", rls.maxLength)
        ELSE IF rls.custom # "" /\ ~custom(rls.custom, value)
        THEN Message(customMessageOf(rls), 0)
        ELSE null

\* validateField(field, rules), value0 being field.value.  A length rule
\* that is missing or 0 is falsy and skips its check.
validateField(value0, rls) ==
    LET value == trim(value0)
    IN  IF rls.required /\ value = <<>> THEN Message("required", 0)
        ELSE IF value = <<>> THEN null
        ELSE IF rls.minLength > 0 /\ Len(value) < rls.minLength
        THEN Message("minLength", rls.minLength)
        ELSE IF rls.maxLength > 0 /\ Len(value) > rls.maxLength
        THEN Message("maxLength", rls.maxLength)
        ELSE IF rls.pattern # "" /\ ~test(rls.pattern, value)
        THEN Message(rls.pattern, 0)
        ELSE IF rls.custom # "" /\ ~custom(rls.custom, value)
        THEN Message(customMessageOf(rls), 0)
        ELSE null

\* ---------------------------------------------- one field, one rule set
ValueChars == {"a", "1", " "}

\* values that match the email, the password and the phone pattern, and a
\* name with a hyphen
SampleValues ==
    {<<"a", "@", "b", ".", "c">>,
     <<"A", "b", "c", "d", "e", "f", "g", "1">>,
     <<"+", "7", "1", "2", "3", "4", "5", "6", "7", "8", "9", "0">>,
     <<"a", "-", "B">>}

FieldValues ==
    UNION {[1..n -> ValueChars] : n \in 0..MaxValueLen} \cup SampleValues

RuleLengths == {NoLength} \cup (0..MaxRuleLen)

RuleSets ==
    [required : BOOLEAN, minLength : RuleLengths, maxLength : RuleLengths,
     pattern : {"", "email", "phone", "name", "password"},
     custom : {"", "accept", "reject", "noDigit"},
     customMessage : {"", "custom message"}]

\* a field and a rule set; validateField has not run; cart and product
\* manager as constructed
InitField ==
    /\ fieldValue \in FieldValues
    /\ rules \in RuleSets
    /\ error = null
    /\ fvCall = "none"
    /\ IdleForm
    /\ items = constructor(Text("absent"), TRUE).items
    /\ itemsKind = constructor(Text("absent"), TRUE).itemsKind
    /\ storage = constructor(Text("absent"), TRUE).storage
    /\ logged = constructor(Text("absent"), TRUE).logged
    /\ ret = constructor(Text("absent"), TRUE).ret
    /\ call = "constructor"
    /\ products = <<>>
    /\ filteredProducts = <<>>
    /\ loadTimer = FALSE
    /\ found = <<>>
    /\ pmCall = "constructor"
    /\ IdlePage

ValidateField ==
    /\ error' = validateField(fieldValue, rules)
    /\ fvCall' = "validateField"
    /\ UNCHANGED <<fieldValue, rules, formVars, cartVars, catalogVars, pageVars>>

NextField == ValidateField

\* validateField on one field
SpecField == InitField /\ [][NextField]_vars

\* ------------------------------------------------------------ C11
\* The checks of a rule set in the order of C11: whether the rule set has
\* the check, whether value fails it, and the error it gives.
C11_Checks(value, rls) ==
    <<[has |-> rls.required,
       fails |-> Len(value) = 0,
       error |-> Message("required", 0)],
      [has |-> rls.minLength # NoLength,
       fails |-> Len(value) < rls.minLength,
       error |-> Message("minLength", rls.minLength)],
      [has |-> rls.maxLength # NoLength,
       fails |-> Len(value) > rls.maxLength,
       error |-> Message("maxLength", rls.maxLength)],
      [has |-> rls.pattern # "",
       fails |-> rls.pattern # "" /\ ~test(rls.pattern, value),
       error |-> Message(rls.pattern, 0)],
      [has |-> rls.custom # "",
       fails |-> rls.custom # "" /\ ~custom(rls.custom, value),
       error |-> Message(customMessageOf(rls), 0)]>>

\* the error of the first check of checks that the rule set has and the
\* value fails, null when there is none
C11_FirstFailing(checks) ==
    LET failing == {k \in 1..Len(checks) : checks[k].has /\ checks[k].fails}
    IN  IF failing = {} THEN null
        ELSE checks[CHOOSE k \in failing : \A j \in failing : k <= j].error

\* C11 as stated: validateField returns the error of the first failing
\* check in the order required-empty, min length, max length, pattern,
\* custom predicate, and null only when no check of the rule set fails,
\* also for an empty value of a field that is not required.
C11_FirstFailingCheck ==
    fvCall = "validateField" =>
        error = C11_FirstFailing(C11_Checks(trim(fieldValue), rules))

\* C11 amended: an empty (trimmed) value of a field that is not required
\* gives null whatever the other rules are, and a maxLength of 0 counts as
\* no maxLength rule; otherwise as stated.
C11_FirstFailingCheckOfFilled ==
    fvCall = "validateField" =>
        LET value == trim(fieldValue)
            counted == [rules EXCEPT !.maxLength =
                            IF rules.maxLength = 0 THEN NoLength ELSE rules.maxLength]
        IN  IF value = <<>> /\ ~rules.required
            THEN error = null
            ELSE error = C11_FirstFailing(C11_Checks(value, counted))

\* C11 witness: the value is too long and also fails the pattern and the
\* custom predicate; validateField returned the max-length error
C11_Witness ==
    /\ fvCall = "validateField"
    /\ error = Message("maxLength", 1)
    /\ rules.pattern = "name" /\ ~testName(trim(fieldValue))
    /\ rules.custom = "reject"
    /\ rules.minLength = 1

\* ------------------------------------------- a form of declared fields
\* validateForm after the entries k.. of fieldsRules, acc being
\* [isValid, errors, shown, validated] after the entries before k
RECURSIVE validateFormFrom(_, _, _, _)
validateFormFrom(frm, fRules, k, acc) ==
    IF k > Len(FieldNames) THEN acc
    ELSE LET fieldName == FieldNames[k]
             field == frm[fieldName]
             err == validateField(field.value, fRules[fieldName])
         IN  IF ~field.present
             THEN \* if (field) is false: nothing is done for this name
                  validateFormFrom(frm, fRules, k + 1, acc)
             ELSE IF err # null
             THEN validateFormFrom(frm, fRules, k + 1,
                      [isValid |-> FALSE,
                       errors |-> [acc.errors EXCEPT ![fieldName] = err],
                       shown |-> [acc.shown EXCEPT ![fieldName] = err],
                       validated |-> acc.validated \cup {fieldName}])
             ELSE validateFormFrom(frm, fRules, k + 1,
                      [isValid |-> acc.isValid,
                       errors |-> acc.errors,
                       shown |-> [acc.shown EXCEPT ![fieldName] = null],
                       validated |-> acc.validated \cup {fieldName}])

\* validateForm(form, fieldsRules); was is what the fields display before
validateForm(frm, fRules, was) ==
    validateFormFrom(frm, fRules, 1,
        [isValid |-> TRUE, errors |-> [f \in FieldSet |-> null],
         shown |-> was, validated |-> {}])

\* values typed into the fields of the form
FormValues ==
    {<<>>, <<"a">>, <<"a", "1">>, <<"a", "@", "b", ".", "c">>}

\* rule sets declared for the fields of the form
FormRuleSets ==
    {NoRules,
     [NoRules EXCEPT !.required = TRUE],
     [NoRules EXCEPT !.required = TRUE, !.minLength = 2, !.pattern = "name"],
     [NoRules EXCEPT !.pattern = "email"]}

\* initFormValidation on a form that has an element for some of the
\* declared names, the fields still empty; cart and product manager as
\* constructed
InitForm ==
    /\ form \in [FieldSet -> {NoElement, Element(<<>>)}]
    /\ fieldsRules \in [FieldSet -> FormRuleSets]
    /\ isValid = TRUE
    /\ errors = [f \in FieldSet |-> null]
    /\ shown = [f \in FieldSet |-> null]
    /\ validated = {}
    /\ formCall = "initFormValidation"
    /\ IdleField
    /\ items = constructor(Text("absent"), TRUE).items
    /\ itemsKind = constructor(Text("absent"), TRUE).itemsKind
    /\ storage = constructor(Text("absent"), TRUE).storage
    /\ logged = constructor(Text("absent"), TRUE).logged
    /\ ret = constructor(Text("absent"), TRUE).ret
    /\ call = "constructor"
    /\ products = <<>>
    /\ filteredProducts = <<>>
    /\ loadTimer = FALSE
    /\ found = <<>>
    /\ pmCall = "constructor"
    /\ IdlePage

\* the 'input' listener of a field: the user changed the value
InputField ==
    \E fieldName \in FieldSet, value \in FormValues :
        /\ form[fieldName].present
        /\ form' = [form EXCEPT ![fieldName] = Element(value)]
        /\ shown' = [shown EXCEPT ![fieldName] = null]
        /\ formCall' = "input"
        /\ UNCHANGED <<fieldsRules, isValid, errors, validated>>
        /\ UNCHANGED <<fieldVars, cartVars, catalogVars, pageVars>>

\* the 'blur' listener of a field
BlurField ==
    \E fieldName \in FieldSet :
        /\ form[fieldName].present
        /\ shown' = [shown EXCEPT ![fieldName] =
                        validateField(form[fieldName].value, fieldsRules[fieldName])]
        /\ formCall' = "blur"
        /\ UNCHANGED <<form, fieldsRules, isValid, errors, validated>>
        /\ UNCHANGED <<fieldVars, cartVars, catalogVars, pageVars>>

\* validateForm, called by the 'submit' listener
ValidateForm ==
    LET r == validateForm(form, fieldsRules, shown)
    IN  /\ isValid' = r.isValid
        /\ errors' = r.errors
        /\ shown' = r.shown
        /\ validated' = r.validated
        /\ formCall' = "validateForm"
        /\ UNCHANGED <<form, fieldsRules>>
        /\ UNCHANGED <<fieldVars, cartVars, catalogVars, pageVars>>

NextForm ==
    \/ InputField
    \/ BlurField
    \/ ValidateForm

\* the validator on a form
SpecForm == InitForm /\ [][NextForm]_vars

\* ------------------------------------------------------------ C12
\* C12 as stated: validateForm evaluates the rules of every declared
\* field, whether or not an earlier field failed, and returns true exactly
\* when no declared field has an error; no declared field passes without
\* its rules having been evaluated.
C12_EveryDeclaredFieldValidated ==
    formCall = "validateForm" =>
        /\ validated = FieldSet
        /\ isValid <=> (\A f \in FieldSet : errors[f] = null)
        /\ \A f \in FieldSet :
               errors[f] = validateField(form[f].value, fieldsRules[f])

\* ================================================================ page
\* the search input receives at most MaxInputs 'input' events
MaxInputs == 3

\* the catalog the simulated fetch of loadProducts always delivers
PageCatalog == [k \in 1..Cardinality(ProductPool) |->
                   CHOOSE p \in ProductPool : p.id = k]

\* texts the user leaves in the search input
TypedValues == {<<>>, <<" ">>, <<"a">>, <<" ", "B", " ">>, <<"b", "a">>}

renderProducts_first(list) ==
    IF list = <<>> THEN <<>> ELSE <<list[1].id>>

\* the cards of the grid, by their data-product-id; no card for an empty
\* list
renderProducts(list) == [k \in 1..Len(list) |-> list[k].id]

clearTimeout_none(pending, id) == pending

clearTimeout(pending, id) == pending \ {id}

\* initApp has run: loadProducts has set the timer of the simulated fetch,
\* the listeners of initFilter and initSearch are attached, the cart was
\* constructed with nothing stored
InitPage ==
    /\ items = constructor(Text("absent"), TRUE).items
    /\ itemsKind = constructor(Text("absent"), TRUE).itemsKind
    /\ storage = constructor(Text("absent"), TRUE).storage
    /\ logged = constructor(Text("absent"), TRUE).logged
    /\ ret = constructor(Text("absent"), TRUE).ret
    /\ call = "constructor"
    /\ products = <<>>
    /\ filteredProducts = <<>>
    /\ loadTimer = TRUE
    /\ found = <<>>
    /\ pmCall = "constructor"
    /\ rendered = <<>>
    /\ searchInput = <<>>
    /\ timers = {}
    /\ searchTimeout = 0
    /\ ran = <<>>
    /\ debounced = <<>>
    /\ cleared = {}
    /\ IdleField
    /\ IdleForm

\* the setTimeout callback of ProductManager.loadProducts resolves the
\* promise, and the global loadProducts resumes after its await and
\* renders the view
LoadCatalog ==
    /\ loadTimer
    /\ loadTimer' = FALSE
    /\ products' = PageCatalog
    /\ filteredProducts' = PageCatalog
    /\ found' = PageCatalog
    /\ pmCall' = "loadProducts"
    /\ rendered' = renderProducts(PageCatalog)
    /\ UNCHANGED <<searchInput, timers, searchTimeout, ran, debounced, cleared>>
    /\ UNCHANGED <<cartVars, validatorVars>>

\* the 'click' listener of a filter button
FilterClick ==
    \E category \in CategoryArgs :
        LET r == filterByCategory(Manager, category)
        IN  /\ products' = r.products
            /\ filteredProducts' = r.filteredProducts
            /\ found' = r.found
            /\ pmCall' = "filterByCategory"
            /\ rendered' = renderProducts(r.found)
            /\ UNCHANGED <<searchInput, timers, searchTimeout, ran,
                           debounced, cleared>>
            /\ UNCHANGED <<loadTimer, cartVars, validatorVars>>

\* the 'submit' listener of the search form
SearchSubmit ==
    LET query == trim(searchInput)
        r == searchProducts(Manager, query)
    IN  /\ products' = r.products
        /\ filteredProducts' = r.filteredProducts
        /\ found' = r.found
        /\ pmCall' = "searchProducts"
        /\ rendered' = renderProducts(r.found)
        /\ UNCHANGED <<searchInput, timers, searchTimeout, ran,
                       debounced, cleared>>
        /\ UNCHANGED <<loadTimer, cartVars, validatorVars>>

\* the user edits the text, and the 'input' listener of the search input
\* clears the timer it set last and sets a new one
SearchInput ==
    \E value \in TypedValues :
        /\ searchTimeout < MaxInputs
        /\ searchInput' = value
        /\ cleared' = cleared \cup (timers \cap {searchTimeout})
        /\ timers' = clearTimeout(timers, searchTimeout) \cup {searchTimeout + 1}
        /\ searchTimeout' = searchTimeout + 1
        /\ UNCHANGED <<rendered, ran, debounced>>
        /\ UNCHANGED <<catalogVars, cartVars, validatorVars>>

\* a debounce timer fires: its callback searches for the text the input
\* holds now
DebounceFire ==
    \E id \in timers :
        LET query == trim(searchInput)
            r == searchProducts(Manager, query)
        IN  /\ timers' = timers \ {id}
            /\ ran' = Append(ran, id)
            /\ debounced' = query
            /\ products' = r.products
            /\ filteredProducts' = r.filteredProducts
            /\ found' = r.found
            /\ pmCall' = "searchProducts"
            /\ rendered' = renderProducts(r.found)
            /\ UNCHANGED <<searchInput, searchTimeout, cleared>>
            /\ UNCHANGED <<loadTimer, cartVars, validatorVars>>

NextPage ==
    \/ LoadCatalog
    \/ FilterClick
    \/ SearchSubmit
    \/ SearchInput
    \/ DebounceFire

\* the page under every interleaving of its handlers
SpecPage == InitPage /\ [][NextPage]_vars

\* the event loop runs the callback of a timer that stays pending
SpecPageFair == SpecPage /\ WF_vars(DebounceFire)

\* ========================================================= page claims
\* list is products with some of its elements left out
Subsequence(list) ==
    \E keep \in SUBSET (1..Len(products)) : list = Picked(products, keep, 1)

\* C13: under every interleaving of the load completion, the filter
\* clicks, the search submits and the debounce timers, after each handler
\* the filtered view is a subsequence of the current catalog and is the
\* result of the filter or search that ran last (the whole catalog when
\* the load completed last), and the rendered list shows that view.
C13_ViewIsLastResult ==
    /\ Subsequence(filteredProducts)
    /\ filteredProducts = found
    /\ pmCall = "loadProducts" => filteredProducts = products
    /\ pmCall = "filterByCategory" =>
           \E category \in CategoryArgs :
               filteredProducts = filterByCategory(Manager, category).found
    /\ pmCall = "searchProducts" =>
           \E value \in TypedValues :
               filteredProducts = searchProducts(Manager, trim(value)).found
    /\ Len(rendered) = Len(filteredProducts)
    /\ \A k \in 1..Len(rendered) : rendered[k] = filteredProducts[k].id

\* C13 witness: on the loaded catalog a debounced search has replaced the
\* view by some, not all, of the products, and they are rendered
C13_Witness ==
    /\ ~loadTimer
    /\ pmCall = "searchProducts"
    /\ ran # <<>>
    /\ timers = {}
    /\ Len(filteredProducts) \in 1..(Len(products) - 1)
    /\ Len(rendered) = Len(filteredProducts)

\* the debounce callback that ran last was timer id searching for query
RanLast(id, query) ==
    /\ ran # <<>>
    /\ ran[Len(ran)] = id
    /\ debounced = query

\* C14: at most one debounce callback is pending at any time; a callback
\* superseded by a new input event never runs, no callback runs twice; and
\* after the last input event of a burst the callback it scheduled
\* eventually runs, searching for the final text of the input.
C14_Debounce ==
    /\ [](Cardinality(timers) <= 1)
    /\ [](\A k \in 1..Len(ran) : ran[k] \notin cleared)
    /\ [](\A j, k \in 1..Len(ran) : ran[j] = ran[k] => j = k)
    /\ \A n \in 1..MaxInputs :
           (searchTimeout = n /\ n \in timers)
               ~> \/ searchTimeout > n
                  \/ (timers = {} /\ RanLast(n, trim(searchInput)))

\* C14 witness: an input event superseded a pending callback, and the
\* callback of the last input event has run with a non-empty query
C14_Witness ==
    /\ cleared # {}
    /\ timers = {}
    /\ RanLast(searchTimeout, trim(searchInput))
    /\ debounced # <<>>

====
